---- MODULE Spec2Model ----
(***************************************************************************)
(* Order engine (orders.py), preference lifting (game.py) and equilibrium  *)
(* engine (nash_finder.py) of the posetal-game library.                    *)
(*                                                                         *)
(* Python sets iterate in hash order. The order in which a set hands out   *)
(* its members is therefore an input of every loop over a set: it is kept  *)
(* as a sequence (iterOrd for `elements`, repOrd for the equivalence-class *)
(* sets whose first member is the class representative).                   *)
(***************************************************************************)
EXTENDS Integers, Sequences, FiniteSets, TLC

\* ------------------------------------------------------------------ bounds
MaxElems == 3
MaxRel == 3

Elems == 1..MaxElems

\* ----------------------------------------------------------------- helpers
\* All orders in which a set can be iterated.
Perms(S) ==
  {f \in [1..Cardinality(S) -> S] : \A i, j \in 1..Cardinality(S) : f[i] = f[j] => i = j}

\* The subsets of S with at most k members.
BoundedSubsets(S, k) == {X \in SUBSET S : Cardinality(X) <= k}

Range(s) == {s[i] : i \in 1..Len(s)}

\* The members of S in the order of ord.
RECURSIVE Restrict(_, _)
Restrict(ord, S) ==
  IF ord = <<>> THEN <<>>
  ELSE IF Head(ord) \in S THEN <<Head(ord)>> \o Restrict(Tail(ord), S)
       ELSE Restrict(Tail(ord), S)

\* itertools.combinations(seq, 3): index triples i < j < k, lexicographic.
RECURSIVE TriplesFrom(_, _, _, _)
TriplesFrom(s, i, j, k) ==
  LET n == Len(s) IN
  IF i > n - 2 THEN <<>>
  ELSE IF j > n - 1 THEN TriplesFrom(s, i + 1, i + 2, i + 3)
  ELSE IF k > n THEN TriplesFrom(s, i, j + 1, j + 2)
  ELSE <<(<<s[i], s[j], s[k]>>)>> \o TriplesFrom(s, i, j, k + 1)

combinations3(s) == TriplesFrom(s, 1, 2, 3)

\* itertools.combinations(seq, 2): index pairs i < j, lexicographic.
RECURSIVE PairsFrom(_, _, _)
PairsFrom(s, i, j) ==
  LET n == Len(s) IN
  IF i > n - 1 THEN <<>>
  ELSE IF j > n THEN PairsFrom(s, i + 1, i + 2)
  ELSE <<(<<s[i], s[j]>>)>> \o PairsFrom(s, i, j + 1)

combinations2(s) == PairsFrom(s, 1, 2)

\* ------------------------------------------------------------ orders.py
\* One pass of the for loop of _transitive_closure over the triples.
RECURSIVE ClosurePass(_, _)
ClosurePass(closure, triples) ==
  IF triples = <<>> THEN closure
  ELSE LET t == Head(triples)
           a == t[1]
           b == t[2]
           c == t[3]
       IN IF <<a, b>> \in closure /\ <<b, c>> \in closure /\ <<a, c>> \notin closure
          THEN ClosurePass(closure \cup {<<a, c>>}, Tail(triples))
          ELSE ClosurePass(closure, Tail(triples))

\* The while loop: passes are repeated as long as one added a pair.
RECURSIVE ClosureLoop(_, _)
ClosureLoop(ord, closure) ==
  LET next == ClosurePass(closure, combinations3(ord))
  IN IF next = closure THEN closure ELSE ClosureLoop(ord, next)

\* _transitive_closure(elements, relations), elements iterated as ord.
transitive_closure(ord, relations) == ClosureLoop(ord, relations)

\* _reflexive_closure(elements, relations).
reflexive_closure(elements, relations) ==
  relations \cup {<<e, e>> : e \in elements}

\* PreOrder.leq / PreOrder.less on a stored relation set.
leq(relations, a, b) == <<a, b>> \in relations

less(relations, a, b) == leq(relations, a, b) /\ ~leq(relations, b, a)

\* next(iter(eq_class)): the member of the class a set hands out first. A
\* singleton hands out its only member; repOrd orders the tied elements.
Representative(repOrd, class) ==
  IF Cardinality(class) = 1 THEN CHOOSE x \in class : TRUE
  ELSE Head(Restrict(repOrd, class))

\* The inner for loop of _build_hasse_diagram: index of the first class
\* whose representative is tied with e (0 when there is none).
RECURSIVE FindClass(_, _, _, _, _)
FindClass(relations, repOrd, classes, e, i) ==
  IF i > Len(classes) THEN 0
  ELSE LET rep == Representative(repOrd, classes[i])
       IN IF leq(relations, e, rep) /\ leq(relations, rep, e)
          THEN i
          ELSE FindClass(relations, repOrd, classes, e, i + 1)

\* The outer for loop: the list of equivalence classes, in creation order.
RECURSIVE EquivalenceClasses(_, _, _, _)
EquivalenceClasses(relations, repOrd, todo, classes) ==
  IF todo = <<>> THEN classes
  ELSE LET e == Head(todo)
           i == FindClass(relations, repOrd, classes, e, 1)
       IN IF i = 0
          THEN EquivalenceClasses(relations, repOrd, Tail(todo), Append(classes, {e}))
          ELSE EquivalenceClasses(relations, repOrd, Tail(todo),
                                  [classes EXCEPT ![i] = @ \cup {e}])

\* The edges added between the classes, from their representatives.
ClassEdges(relations, repOrd, classes) ==
  LET ps == combinations2(classes)
      EdgeOf(p) ==
        LET a == Representative(repOrd, p[1])
            b == Representative(repOrd, p[2])
        IN IF less(relations, a, b) THEN {<<p[1], p[2]>>}
           ELSE IF less(relations, b, a) THEN {<<p[2], p[1]>>}
           ELSE {}
  IN UNION {EdgeOf(ps[i]) : i \in 1..Len(ps)}

\* Nodes reachable from S along the edges in at most n steps.
RECURSIVE ReachN(_, _, _)
ReachN(edges, S, n) ==
  IF n = 0 THEN S
  ELSE LET T == S \cup {e[2] : e \in {d \in edges : d[1] \in S}}
       IN IF T = S THEN S ELSE ReachN(edges, T, n - 1)

\* Strict descendants of u: the nodes a path of one or more edges leads to.
Descendants(nodes, edges, u) ==
  ReachN(edges, {e[2] : e \in {d \in edges : d[1] = u}}, Cardinality(nodes))

\* Strict ancestors of u (networkx.ancestors).
Ancestors(nodes, edges, u) ==
  Descendants(nodes, {<<e[2], e[1]>> : e \in edges}, u)

\* networkx.is_directed_acyclic_graph.
IsDAG(nodes, edges) == \A u \in nodes : u \notin Descendants(nodes, edges, u)

\* networkx.transitive_reduction of a DAG: an edge stays unless its head is
\* a descendant of another successor of its tail.
TransitiveReduction(nodes, edges) ==
  {e \in edges :
     ~\E d \in edges : d[1] = e[1] /\ d[2] # e[2]
                       /\ e[2] \in Descendants(nodes, edges, d[2])}

\* PreOrder._validate: reflexivity, then transitivity over combinations.
PreOrderValid(elements, ord, relations) ==
  /\ \A e \in elements : <<e, e>> \in relations
  /\ LET ts == combinations3(ord)
     IN \A i \in 1..Len(ts) :
          (<<ts[i][1], ts[i][2]>> \in relations /\ <<ts[i][2], ts[i][3]>> \in relations)
            => <<ts[i][1], ts[i][3]>> \in relations

\* The antisymmetry loop of PartialOrder._validate.
Antisymmetric(ord, relations) ==
  LET ps == combinations2(ord)
  IN \A i \in 1..Len(ps) :
       ~(<<ps[i][1], ps[i][2]>> \in relations /\ <<ps[i][2], ps[i][1]>> \in relations
         /\ ps[i][1] # ps[i][2])

\* A PartialOrder._validate that forgets the antisymmetry loop (mutant).
PartialOrderValidNoAntisymmetry(elements, ord, relations) ==
  PreOrderValid(elements, ord, relations)

\* PartialOrder._validate.
PartialOrderValid(elements, ord, relations) ==
  /\ PreOrderValid(elements, ord, relations)
  /\ Antisymmetric(ord, relations)

NoHasse == [nodes |-> {}, edges |-> {}]

\* The relation PreOrder.__init__ stores: transitive, then reflexive closure.
StoredRelations(elements, ord, rels) ==
  reflexive_closure(elements, transitive_closure(ord, rels))

\* The elements tied with another one: only these can share a class.
Tied(elements, relations) ==
  {a \in elements :
     \E b \in elements : a # b /\ <<a, b>> \in relations /\ <<b, a>> \in relations}

\* The orders in which the equivalence-class sets may hand out their members:
\* any order of the tied elements (a class of two or more holds only those).
RepOrders(elements, relations) == Perms(Tied(elements, relations))

NoObject == [cls |-> "none", elements |-> {}, relations |-> {}, hasse |-> NoHasse]

\* PreOrder.__init__ / PartialOrder.__init__: the constructed object, or the
\* exception that leaves the constructor (and then no object exists).
\* cls is "PreOrder" or "PartialOrder"; _build_hasse_diagram runs before
\* _validate, and transitive_reduction refuses a graph with a cycle.
Construct(cls, elements, ord, repOrd, rels) ==
  LET relations == StoredRelations(elements, ord, rels)
      classes == EquivalenceClasses(relations, repOrd, ord, <<>>)
      nodes == Range(classes)
      G == ClassEdges(relations, repOrd, classes)
  IN IF ~IsDAG(nodes, G)
     THEN [error |-> "NetworkXError", obj |-> NoObject]
     ELSE LET ok == IF cls = "PartialOrder"
                    THEN PartialOrderValid(elements, ord, relations)
                    ELSE PreOrderValid(elements, ord, relations)
          IN IF ok
             THEN [error |-> "none",
                   obj |-> [cls |-> cls, elements |-> elements, relations |-> relations,
                            hasse |-> [nodes |-> nodes,
                                       edges |-> TransitiveReduction(nodes, G)]]]
             ELSE [error |-> "ValueError", obj |-> NoObject]

\* Some order of the set S, for the places where the order cannot matter.
RECURSIVE SomeOrder(_)
SomeOrder(S) ==
  IF S = {} THEN <<>>
  ELSE LET x == CHOOSE y \in S : TRUE IN <<x>> \o SomeOrder(S \ {x})

IsTransitive(elements, rels) ==
  \A a, b, c \in elements :
    (<<a, b>> \in rels /\ <<b, c>> \in rels) => <<a, c>> \in rels

\* Every outcome PreOrder(elements, rels) / PartialOrder(elements, rels) can
\* have, over the iteration orders of the sets. A relation that is already
\* transitive gains no pair under any order, its classes are the same under
\* any choice of representatives, so one order stands for all of them.
ConstructOutcomes(cls, elements, rels) ==
  IF IsTransitive(elements, rels)
  THEN {Construct(cls, elements, SomeOrder(elements),
                  SomeOrder(Tied(elements, rels)), rels)}
  ELSE UNION {{Construct(cls, elements, ord, repOrd, rels) :
                 repOrd \in RepOrders(elements, StoredRelations(elements, ord, rels))} :
              ord \in Perms(elements)}

\* The terminal nodes that have a node below them (mutant).
maximal_elements_above_another(poset) ==
  UNION {n \in poset.hasse.nodes :
           /\ ~\E e \in poset.hasse.edges : e[1] = n
           /\ \E e \in poset.hasse.edges : e[2] = n}

\* minimal_elements / maximal_elements: the members of the Hasse nodes with
\* in-degree 0 / out-degree 0.
minimal_elements(poset) ==
  UNION {n \in poset.hasse.nodes : ~\E e \in poset.hasse.edges : e[2] = n}

maximal_elements(poset) ==
  UNION {n \in poset.hasse.nodes : ~\E e \in poset.hasse.edges : e[1] = n}

\* PreOrder.build_sub_preorder: the pairs kept for the subset.
sub_relations(poset, subset) ==
  {r \in poset.relations : r[1] \in subset /\ r[2] \in subset}

\* total_order_from_list(elements): the first element is the smallest.
total_order_from_list(elements) ==
  ConstructOutcomes("PartialOrder", Range(elements),
                    {<<elements[p[1]], elements[p[2]]>> :
                       p \in {q \in (1..Len(elements)) \X (1..Len(elements)) :
                                q[1] <= q[2]}})

\* node_to_elem: the member of a singleton Hasse node.
node_to_elem(node) == CHOOSE e \in node : TRUE

\* adj: the Hasse successors of every element.
adj(poset) ==
  [e \in {node_to_elem(n) : n \in poset.hasse.nodes} |->
     {node_to_elem(d[2]) : d \in {c \in poset.hasse.edges : node_to_elem(c[1]) = e}}]

\* indeg: the number of Hasse predecessors of every element.
indeg(poset) ==
  [e \in DOMAIN adj(poset) |->
     Cardinality({u \in DOMAIN adj(poset) : e \in adj(poset)[u]})]

\* A start from all elements, whatever their in-degree (mutant).
initial_available_all(poset) == DOMAIN adj(poset)

\* initial_available: the elements of in-degree 0.
initial_available(poset) == {e \in DOMAIN indeg(poset) : indeg(poset)[e] = 0}

\* A step that releases no successor (mutant).
new_available_without_successors(adjacency, available, elem, new_indeg) ==
  available \ {elem}

\* new_available: elem leaves, and its successors whose in-degree fell to 0
\* come in.
new_available(adjacency, available, elem, new_indeg) ==
  (available \ {elem}) \cup {succ \in adjacency[elem] : new_indeg[succ] = 0}

\* _backtrack(order, available, current_indeg): the lists it yields, in the
\* order of the yields. Each set `available` is walked in the order `ord`
\* gives its members; the order decides the order of the yields only.
RECURSIVE backtrack(_, _, _, _, _)
RECURSIVE BacktrackLoop(_, _, _, _, _, _)
backtrack(adjacency, ord, order, available, current_indeg) ==
  IF Len(order) = Cardinality(DOMAIN adjacency) THEN <<order>>
  ELSE BacktrackLoop(adjacency, ord, order, Restrict(ord, available),
                     available, current_indeg)

\* The loop `for elem in list(available)` of _backtrack.
BacktrackLoop(adjacency, ord, order, todo, available, current_indeg) ==
  IF todo = <<>> THEN <<>>
  ELSE LET elem == Head(todo)
           new_indeg == [s \in DOMAIN current_indeg |->
                           IF s \in adjacency[elem] THEN current_indeg[s] - 1
                           ELSE current_indeg[s]]
       IN backtrack(adjacency, ord, Append(order, elem),
                    new_available(adjacency, available, elem, new_indeg), new_indeg)
          \o BacktrackLoop(adjacency, ord, order, Tail(todo), available, current_indeg)

\* The consumer's list of the orders yielded for `orders` from position i
\* on; a constructor that raises ends the generator.
RECURSIVE YieldAll(_, _, _)
YieldAll(orders, i, list) ==
  IF i > Len(orders) THEN {[error |-> "none", list |-> list]}
  ELSE UNION {IF o.error # "none" THEN {[error |-> o.error, list |-> list]}
              ELSE YieldAll(orders, i + 1, Append(list, o.obj))
              : o \in total_order_from_list(orders[i])}

\* list(completions_of_poset(poset)).
CompletionsOutcomes(poset, ord) ==
  IF \E n \in poset.hasse.nodes : Cardinality(n) # 1
  THEN {[error |-> "ValueError", list |-> <<>>]}
  ELSE YieldAll(backtrack(adj(poset), ord, <<>>, initial_available(poset), indeg(poset)),
                1, <<>>)

\* -------------------------------------------------------------- game.py
\* An ActionProfile is the dict player_id -> action; a Metric is its name
\* with its outcome function, kept as metrics[name][action_profile].
NoPlayer == [player_id |-> "", actions |-> {}, metrics |-> <<>>, preference |-> NoObject]

\* A Player.__init__ that accepts any preference over some of the metric
\* names (mutant).
PlayerOverSomeNames(player_id, actions, metrics, preference) ==
  IF ~(preference.elements \subseteq DOMAIN metrics)
  THEN [error |-> "ValueError", obj |-> NoPlayer]
  ELSE [error |-> "none",
        obj |-> [player_id |-> player_id, actions |-> actions,
                 metrics |-> metrics, preference |-> preference]]

\* Player.__init__: fails unless the preference is over the metric names.
Player(player_id, actions, metrics, preference) ==
  IF preference.elements # DOMAIN metrics
  THEN [error |-> "ValueError", obj |-> NoPlayer]
  ELSE [error |-> "none",
        obj |-> [player_id |-> player_id, actions |-> actions,
                 metrics |-> metrics, preference |-> preference]]

\* _check_induced_leq with the test turned round: LESS nodes must all be
\* ancestors of the GREATER nodes (mutant).
check_induced_leq_reversed(player, ap1, ap2) ==
  LET names == DOMAIN player.metrics
      pref == player.preference
      edges == {e \in pref.elements \X pref.elements : less(pref.relations, e[1], e[2])}
      greater_nodes == {m \in names : player.metrics[m][ap1] > player.metrics[m][ap2]}
      less_nodes == {m \in names : player.metrics[m][ap1] < player.metrics[m][ap2]}
      ancestors_of_greater == UNION {Ancestors(names, edges, gn) : gn \in greater_nodes}
  IN less_nodes \subseteq ancestors_of_greater

\* _check_induced_leq answering TRUE as soon as no metric is LESS (mutant).
check_induced_leq_vacuous(player, ap1, ap2) ==
  LET names == DOMAIN player.metrics
      pref == player.preference
      edges == {e \in pref.elements \X pref.elements : less(pref.relations, e[1], e[2])}
      greater_nodes == {m \in names : player.metrics[m][ap1] > player.metrics[m][ap2]}
      less_nodes == {m \in names : player.metrics[m][ap1] < player.metrics[m][ap2]}
      ancestors_of_less == UNION {Ancestors(names, edges, ln) : ln \in less_nodes}
  IN less_nodes = {} \/ greater_nodes \subseteq ancestors_of_less

\* _check_induced_leq: the metrics are classed LESS / EQUAL / GREATER, the
\* graph has an edge a -> b for preference.less(a, b), and ap1 <= ap2 when
\* every GREATER node is an ancestor of some LESS node.
check_induced_leq(player, ap1, ap2) ==
  LET names == DOMAIN player.metrics
      pref == player.preference
      edges == {e \in pref.elements \X pref.elements : less(pref.relations, e[1], e[2])}
      greater_nodes == {m \in names : player.metrics[m][ap1] > player.metrics[m][ap2]}
      less_nodes == {m \in names : player.metrics[m][ap1] < player.metrics[m][ap2]}
      ancestors_of_less == UNION {Ancestors(names, edges, ln) : ln \in less_nodes}
  IN greater_nodes \subseteq ancestors_of_less

\* itertools.product over the players' action sets, from player i on: the
\* first player's action varies slowest. Nothing reads the order of the
\* list (it only ever fills sets), so each action set is walked in some order.
RECURSIVE ProductFrom(_, _)
ProductFrom(players, i) ==
  IF i > Len(players) THEN <<(<<>>)>>
  ELSE LET rest == ProductFrom(players, i + 1)
           acts == SomeOrder(players[i].actions)
           lr == Len(rest)
       IN [k \in 1..(Len(acts) * lr) |->
             (players[i].player_id :> acts[((k - 1) \div lr) + 1])
               @@ rest[((k - 1) % lr) + 1]]

\* The list self.action_profiles of PosetalGame.__init__.
ActionProfiles(players) == ProductFrom(players, 1)

\* The pairs induced_preorder_action_profiles hands to PreOrder.
InducedRelations(player, action_profiles) ==
  {r \in Range(action_profiles) \X Range(action_profiles) :
     check_induced_leq(player, r[1], r[2])}

\* An induced preorder built over the profiles that keep the other players'
\* actions of the first profile, as the per-player restriction does (mutant).
InducedOutcomesOthersFixed(player, action_profiles) ==
  LET first == action_profiles[1]
      kept == {ap \in Range(action_profiles) :
                 \A q \in DOMAIN ap : q # player.player_id => ap[q] = first[q]}
  IN ConstructOutcomes("PreOrder", kept,
                       {r \in kept \X kept : check_induced_leq(player, r[1], r[2])})

\* PosetalGame.induced_preorder_action_profiles, for the given player.
InducedOutcomes(player, action_profiles) ==
  ConstructOutcomes("PreOrder", Range(action_profiles),
                    InducedRelations(player, action_profiles))

PlayerIds(players) == {players[i].player_id : i \in 1..Len(players)}

\* self.player_dict[player_id] (a later player of the same id wins).
PlayerById(players, pid) ==
  players[CHOOSE i \in 1..Len(players) :
            /\ players[i].player_id = pid
            /\ \A j \in 1..Len(players) : players[j].player_id = pid => j <= i]

NoGame == [players |-> <<>>, action_profiles |-> <<>>,
           induced_pre_order_for_players |-> <<>>]

\* PosetalGame.__init__: the action profiles, then each player's induced
\* preorder; the first constructor that raises ends it.
PosetalGameOutcomes(players) ==
  LET aps == ActionProfiles(players)
      n == Len(players)
      outs == [i \in 1..n |-> InducedOutcomes(players[i], aps)]
      choices == {c \in [1..n -> UNION {outs[i] : i \in 1..n}] :
                    \A i \in 1..n : c[i] \in outs[i]}
      Failed(c) == {i \in 1..n : c[i].error # "none"}
      FirstFailed(c) == CHOOSE i \in Failed(c) : \A j \in Failed(c) : i <= j
  IN {IF Failed(c) # {}
      THEN [error |-> c[FirstFailed(c)].error, obj |-> NoGame]
      ELSE [error |-> "none",
            obj |-> [players |-> players,
                     action_profiles |-> aps,
                     induced_pre_order_for_players |->
                       [pid \in PlayerIds(players) |->
                          c[CHOOSE i \in 1..n :
                              /\ players[i].player_id = pid
                              /\ \A j \in 1..n : players[j].player_id = pid => j <= i].obj]]]
      : c \in choices}

\* A restriction that reads other_players_actions for every player id, the
\* queried player's included (mutant).
InducedActionsReadingOwnEntry(game, player_id, others) ==
  LET ids == PlayerIds(game.players)
  IN IF ~(ids \subseteq DOMAIN others)
     THEN {[error |-> "KeyError", obj |-> NoObject]}
     ELSE {[error |-> "none",
            obj |-> Construct("PreOrder", {others}, <<others>>, <<others>>,
                              {<<others, others>>}).obj]}

\* PosetalGame.induced_preorder_actions_of_player: the player's induced
\* preorder is computed anew over all profiles and restricted to the
\* profiles that keep the others' actions.
InducedActionsOutcomes(game, player_id, others) ==
  LET ids == PlayerIds(game.players)
  IN IF ~((ids \ {player_id}) \subseteq DOMAIN others)
     THEN {[error |-> "KeyError", obj |-> NoObject]}
     ELSE LET player == PlayerById(game.players, player_id)
              allowed == {[q \in ids |-> IF q = player_id THEN a ELSE others[q]] :
                            a \in player.actions}
          IN UNION {IF full.error # "none"
                    THEN {[error |-> full.error, obj |-> NoObject]}
                    ELSE IF ~(allowed \subseteq full.obj.elements)
                    THEN {[error |-> "AssertionError", obj |-> NoObject]}
                    ELSE ConstructOutcomes("PreOrder", allowed,
                                           sub_relations(full.obj, allowed))
                    : full \in InducedOutcomes(player, game.action_profiles)}

\* The loop of game_from_preference_dict from player i on: a player absent
\* from the dict is taken over as it is (after the printed warning), the
\* others are built anew with the dict's preference; the first Player(...)
\* that raises ends the call.
RECURSIVE NewPlayersFrom(_, _, _, _)
NewPlayersFrom(base_game, preference_dict, i, new_players) ==
  IF i > Len(base_game.players) THEN [error |-> "none", players |-> new_players]
  ELSE LET player == base_game.players[i]
       IN IF player.player_id \notin DOMAIN preference_dict
          THEN NewPlayersFrom(base_game, preference_dict, i + 1,
                              Append(new_players, player))
          ELSE LET new_player == Player(player.player_id, player.actions, player.metrics,
                                        preference_dict[player.player_id])
               IN IF new_player.error # "none"
                  THEN [error |-> new_player.error, players |-> <<>>]
                  ELSE NewPlayersFrom(base_game, preference_dict, i + 1,
                                      Append(new_players, new_player.obj))

\* A derivation that writes the new players into the base game and hands
\* that game back (mutant).
game_from_preference_dict_in_place(base_game, preference_dict) ==
  LET np == NewPlayersFrom(base_game, preference_dict, 1, <<>>)
  IN IF np.error # "none"
     THEN {[error |-> np.error, obj |-> NoGame, base |-> base_game]}
     ELSE {[error |-> r.error, obj |-> r.obj,
            base |-> IF r.error = "none" THEN r.obj ELSE base_game]
           : r \in PosetalGameOutcomes(np.players)}

\* game_from_preference_dict(base_game, preference_dict): the outcome, the
\* returned game, and the base game as the call leaves it (nothing in the
\* function assigns to the base game, its list or its players).
game_from_preference_dict(base_game, preference_dict) ==
  LET np == NewPlayersFrom(base_game, preference_dict, 1, <<>>)
  IN IF np.error # "none"
     THEN {[error |-> np.error, obj |-> NoGame, base |-> base_game]}
     ELSE {[error |-> r.error, obj |-> r.obj, base |-> base_game]
           : r \in PosetalGameOutcomes(np.players)}

\* The PreOrder objects PosetalGame.__init__ creates, one per player in list
\* order, at the addresses from `next` on.
AllocatePreorders(next, players) ==
  [pid \in PlayerIds(players) |->
     next - 1 + CHOOSE i \in 1..Len(players) :
                  /\ players[i].player_id = pid
                  /\ \A j \in 1..Len(players) : players[j].player_id = pid => j <= i]

\* best_response taking the minimal elements (mutant).
BestResponseMinimal(player, others, game) ==
  {IF o.error # "none" THEN [error |-> o.error, value |-> {}]
   ELSE [error |-> "none",
         value |-> {ap[player.player_id] : ap \in minimal_elements(o.obj)}]
   : o \in InducedActionsOutcomes(game, player.player_id, others)}

\* best_response(player, other_players_actions, game).
BestResponseOutcomes(player, others, game) ==
  {IF o.error # "none" THEN [error |-> o.error, value |-> {}]
   ELSE [error |-> "none",
         value |-> {ap[player.player_id] : ap \in maximal_elements(o.obj)}]
   : o \in InducedActionsOutcomes(game, player.player_id, others)}

\* ------------------------------------------------------- nash_finder.py
\* The loop of is_pure_nash_equilibrium from player i on.
RECURSIVE IsPureNashFrom(_, _, _)
IsPureNashFrom(game, ap, i) ==
  IF i > Len(game.players) THEN {[error |-> "none", value |-> TRUE]}
  ELSE LET player == game.players[i]
       IN IF player.player_id \notin DOMAIN ap
          THEN {[error |-> "KeyError", value |-> FALSE]}
          ELSE UNION {IF br.error # "none"
                      THEN {[error |-> br.error, value |-> FALSE]}
                      ELSE IF ap[player.player_id] \notin br.value
                      THEN {[error |-> "none", value |-> FALSE]}
                      ELSE IsPureNashFrom(game, ap, i + 1)
                      : br \in BestResponseOutcomes(player, ap, game)}

\* is_pure_nash_equilibrium looking at the first player only (mutant).
IsPureNashFirstPlayerOnly(game, ap) ==
  IF Len(game.players) = 0 THEN {[error |-> "none", value |-> TRUE]}
  ELSE {IF br.error # "none" THEN [error |-> br.error, value |-> FALSE]
        ELSE [error |-> "none", value |-> ap[game.players[1].player_id] \in br.value]
        : br \in BestResponseOutcomes(game.players[1], ap, game)}

\* is_pure_nash_equilibrium(game, action_profile).
IsPureNashOutcomes(game, ap) == IsPureNashFrom(game, ap, 1)

\* The loop of find_pure_nash_equilibria from list position i on.
RECURSIVE FindPureFrom(_, _, _)
FindPureFrom(game, i, equilibria) ==
  IF i > Len(game.action_profiles) THEN {[error |-> "none", value |-> equilibria]}
  ELSE LET ap == game.action_profiles[i]
       IN UNION {IF r.error # "none" THEN {[error |-> r.error, value |-> {}]}
                 ELSE FindPureFrom(game, i + 1,
                                   IF r.value THEN equilibria \cup {ap} ELSE equilibria)
                 : r \in IsPureNashOutcomes(game, ap)}

\* A scan that starts at the second profile of the list (mutant).
FindPureSkipFirst(game) == FindPureFrom(game, 2, {})

\* find_pure_nash_equilibria(game).
FindPureOutcomes(game) == FindPureFrom(game, 1, {})

\* The loop of action_profile_is_dominated from player i on.
RECURSIVE DominatedFrom(_, _, _, _, _)
DominatedFrom(game, ap1, ap2, i, exist_strict_leq) ==
  IF i > Len(game.players) THEN exist_strict_leq
  ELSE LET rel == game.induced_pre_order_for_players[game.players[i].player_id].relations
       IN IF ~leq(rel, ap1, ap2) THEN FALSE
          ELSE DominatedFrom(game, ap1, ap2, i + 1,
                             exist_strict_leq \/ less(rel, ap1, ap2))

\* A dominance test that asks for no strict player (mutant).
DominatedWeakly(game, ap1, ap2) ==
  \A i \in 1..Len(game.players) :
    leq(game.induced_pre_order_for_players[game.players[i].player_id].relations, ap1, ap2)

\* A dominance test satisfied by one player strictly preferring ap2 (mutant).
DominatedForSomePlayer(game, ap1, ap2) ==
  \E i \in 1..Len(game.players) :
    less(game.induced_pre_order_for_players[game.players[i].player_id].relations, ap1, ap2)

\* action_profile_is_dominated(game, ap1, ap2).
action_profile_is_dominated(game, ap1, ap2) == DominatedFrom(game, ap1, ap2, 1, FALSE)

\* itertools.product(seq, repeat=2).
product2(seq) ==
  [k \in 1..(Len(seq) * Len(seq)) |->
     <<seq[((k - 1) \div Len(seq)) + 1], seq[((k - 1) % Len(seq)) + 1]>>]

\* A discard loop that drops an equilibrium as soon as it meets another
\* one, dominated or not (mutant).
DiscardAnyOther(game, pairs, admissible) ==
  admissible \ {pairs[k][1] : k \in {j \in 1..Len(pairs) : pairs[j][1] # pairs[j][2]}}

\* The discard loop of find_admissible_nash_equilibria.
RECURSIVE DiscardDominated(_, _, _)
DiscardDominated(game, pairs, admissible) ==
  IF pairs = <<>> THEN admissible
  ELSE LET ne1 == Head(pairs)[1]
           ne2 == Head(pairs)[2]
       IN DiscardDominated(game, Tail(pairs),
                           IF ne1 # ne2 /\ action_profile_is_dominated(game, ne1, ne2)
                           THEN admissible \ {ne1}
                           ELSE admissible)

\* find_admissible_nash_equilibria(game).
FindAdmissibleOutcomes(game) ==
  {IF r.error # "none" THEN [error |-> r.error, value |-> {}]
   ELSE [error |-> "none",
         value |-> DiscardDominated(game, product2(SomeOrder(r.value)), r.value)]
   : r \in FindPureOutcomes(game)}

\* The runs of game.induced_preorder_action_profiles that a query makes, per
\* list position of the player it is run for.
NoRuns(game) == [i \in 1..Len(game.players) |-> 0]

AddRuns(r1, r2) == [i \in DOMAIN r1 |-> r1[i] + r2[i]]

\* induced_preorder_actions_of_player runs it once for the queried player,
\* unless reading the others' actions raised before.
InducedActionsRuns(game, player_id, others) ==
  IF ~((PlayerIds(game.players) \ {player_id}) \subseteq DOMAIN others)
  THEN NoRuns(game)
  ELSE [i \in 1..Len(game.players) |->
          IF game.players[i] = PlayerById(game.players, player_id) THEN 1 ELSE 0]

\* The runs of the loop of is_pure_nash_equilibrium from player i on, with
\* whether the loop ended in an error.
RECURSIVE IsPureNashRunsFrom(_, _, _)
IsPureNashRunsFrom(game, ap, i) ==
  IF i > Len(game.players) THEN {[failed |-> FALSE, runs |-> NoRuns(game)]}
  ELSE LET player == game.players[i]
           here == InducedActionsRuns(game, player.player_id, ap)
       IN IF player.player_id \notin DOMAIN ap
          THEN {[failed |-> TRUE, runs |-> NoRuns(game)]}
          ELSE UNION {IF br.error # "none"
                      THEN {[failed |-> TRUE, runs |-> here]}
                      ELSE IF ap[player.player_id] \notin br.value
                      THEN {[failed |-> FALSE, runs |-> here]}
                      ELSE {[failed |-> k.failed, runs |-> AddRuns(here, k.runs)] :
                              k \in IsPureNashRunsFrom(game, ap, i + 1)}
                      : br \in BestResponseOutcomes(player, ap, game)}

\* The runs of the loop of find_pure_nash_equilibria from list position i on.
RECURSIVE FindPureRunsFrom(_, _)
FindPureRunsFrom(game, i) ==
  IF i > Len(game.action_profiles) THEN {[failed |-> FALSE, runs |-> NoRuns(game)]}
  ELSE UNION {IF k.failed THEN {k}
              ELSE {[failed |-> rest.failed, runs |-> AddRuns(k.runs, rest.runs)] :
                      rest \in FindPureRunsFrom(game, i + 1)}
              : k \in IsPureNashRunsFrom(game, game.action_profiles[i], 1)}

\* -------------------------------------------------- order_of_priority.py
\* Largest element set all_partial_orders accepts.
MaxEnumerable == 5

\* possible_edges: every ordered pair of distinct nodes, in list order.
possible_edges(nodes) == SelectSeq(product2(nodes), LAMBDA e : e[1] # e[2])

\* edges_subset: the possible edges whose bit is set in the mask.
edges_subset(possible, mask) ==
  {possible[i] : i \in {j \in 1..Len(possible) : (mask \div (2 ^ (j - 1))) % 2 = 1}}

\* mutual_conflict: an edge and its reverse are both chosen.
mutual_conflict(edges) == \E e \in edges : <<e[2], e[1]>> \in edges

\* The Floyd-Warshall loop of _dag_transitive_closure from pivot k on.
RECURSIVE FloydWarshall(_, _, _)
FloydWarshall(nodes, reach, k) ==
  IF k > Len(nodes) THEN reach
  ELSE FloydWarshall(nodes,
                     reach \cup {<<e[1], f[2]>> :
                                   e \in {r \in reach : r[2] = nodes[k]},
                                   f \in {r \in reach : r[1] = nodes[k]}},
                     k + 1)

\* _dag_transitive_closure(nodes, edges), reflexive pairs included.
dag_transitive_closure(nodes, edges) ==
  FloydWarshall(nodes, edges \cup {<<n, n>> : n \in Range(nodes)}, 1)

\* A closure test that never finds the closure among the seen ones (mutant).
NeverSeen(closure, seen_closures) == FALSE

\* frozen in seen_closures.
AlreadySeen(closure, seen_closures) == closure \in seen_closures

\* The mask loop of all_partial_orders from `mask` up to its next yield, or
\* to the end of the masks.
RECURSIVE NextYield(_, _, _, _)
NextYield(nodes, possible, seen_closures, mask) ==
  IF mask >= 2 ^ Len(possible)
  THEN [found |-> FALSE, mask |-> mask, closure |-> {}]
  ELSE LET edges == edges_subset(possible, mask)
       IN IF mutual_conflict(edges) \/ ~IsDAG(Range(nodes), edges)
          THEN NextYield(nodes, possible, seen_closures, mask + 1)
          ELSE LET closure == dag_transitive_closure(nodes, edges)
               IN IF AlreadySeen(closure, seen_closures)
                  THEN NextYield(nodes, possible, seen_closures, mask + 1)
                  ELSE [found |-> TRUE, mask |-> mask, closure |-> closure]

\* The frame of the generator all_partial_orders returns, with the orders it
\* has handed to its consumer so far.
NoGenerator == [nodes |-> <<>>, mask |-> 0, seen_closures |-> {}, yielded |-> <<>>]

\* A dict that keeps only the item inserted first (mutant).
dict_of_first_item(items) ==
  [k \in {items[i][1] : i \in 1..Len(items) \cap {1}} |-> items[1][2]]

\* The dict built by inserting the (key, value) pairs of `items` in order:
\* a key holds the value inserted last for it.
dict_of(items) ==
  [k \in {items[i][1] : i \in 1..Len(items)} |->
     items[CHOOSE i \in 1..Len(items) :
             /\ items[i][1] = k
             /\ \A j \in 1..Len(items) : items[j][1] = k => j <= i][2]]

\* find_admissible_nash_equilibria_with_preferences(base_game, preference_dict)
\* for the dict with the given items in insertion order.
find_admissible_nash_equilibria_with_preferences(base_game, items) ==
  UNION {IF g.error # "none" THEN {[error |-> g.error, value |-> {}]}
         ELSE FindAdmissibleOutcomes(g.obj)
         : g \in game_from_preference_dict(base_game, dict_of(items))}

\* ----------------------------------------------------------- learning.py
\* PreOrder.__hash__ and __eq__ look at the elements and the relations only.
order_hash(o) == <<o.elements, o.relations>>

order_eq(o1, o2) == o1.elements = o2.elements /\ o1.relations = o2.relations

\* Player ids in the order Python sorts strings.
SortedIds == <<"P1", "P2">>

\* sorted((pid, pref) for pid, pref in preferences.items()): the ids are the
\* keys of a dict, so no two are equal and the preferences are not compared.
sorted_items(items) ==
  LET keys == Restrict(SortedIds, DOMAIN dict_of(items))
  IN [i \in 1..Len(keys) |-> <<keys[i], dict_of(items)[keys[i]]>>]

\* A hash over the items in insertion order (mutant).
profile_hash_unsorted(items) ==
  [i \in 1..Len(items) |-> <<items[i][1], order_hash(items[i][2])>>]

\* PreferenceProfile.__hash__: the hash of the tuple of the sorted items.
profile_hash(items) ==
  [i \in 1..Len(sorted_items(items)) |->
     <<sorted_items(items)[i][1], order_hash(sorted_items(items)[i][2])>>]

\* PreferenceProfile.__eq__: equality of the two dicts.
profile_eq(items1, items2) ==
  /\ DOMAIN dict_of(items1) = DOMAIN dict_of(items2)
  /\ \A k \in DOMAIN dict_of(items1) : order_eq(dict_of(items1)[k], dict_of(items2)[k])

\* self._ne_cache.get(key): the entries whose key has the hash of `items` and
\* is equal to it.
cache_get(cache, items) ==
  {e \in cache : profile_hash(e.key) = profile_hash(items) /\ profile_eq(e.key, items)}

\* LearningFramework._ne_finder for the dict with the given items, where
\* `afresh` holds the outcomes of the call of line 437: a cached set is
\* returned as it is, a new result is stored under the profile and returned,
\* an exception of the finder leaves the cache alone.
ne_finder(cache, items, afresh) ==
  IF cache_get(cache, items) # {}
  THEN {[error |-> "none", value |-> e.value, cache |-> cache] :
          e \in cache_get(cache, items)}
  ELSE {IF r.error # "none"
        THEN [error |-> r.error, value |-> {}, cache |-> cache]
        ELSE [error |-> "none", value |-> r.value,
              cache |-> cache \cup {[key |-> items, value |-> r.value]}]
        : r \in afresh}

\* The preference over the player's metric names that LearningFramework
\* gives every player of its base game: each metric related to itself only.
trivial_preference(names) ==
  (CHOOSE o \in ConstructOutcomes("PartialOrder", names, {<<m, m>> : m \in names}) : TRUE).obj

\* The players of LearningFramework.base_game.
base_players(true_players) ==
  [i \in 1..Len(true_players) |->
     Player(true_players[i].player_id, true_players[i].actions,
            true_players[i].metrics,
            trivial_preference(DOMAIN true_players[i].metrics)).obj]

\* ----------------------------------------------------------------- inputs
\* Largest number of non-zero outcomes in the metric tables of one game.
MaxSupport == 3

\* Metric outcome tables over the given cells with bounded support.
Tables(cells, vals, k) ==
  {t \in [cells -> vals] : Cardinality({c \in cells : t[c] # 0}) <= k}

\* The metrics `names` of a table, as name -> outcome function.
MetricsOf(t, names, profiles) ==
  [m \in names |-> [ap \in profiles |-> t[<<m, ap>>]]]

\* The PartialOrder objects that can be built over `names`.
Preferences(names) ==
  {o.obj : o \in {r \in UNION {ConstructOutcomes("PartialOrder", names, R) :
                                R \in BoundedSubsets(names \X names, MaxRel)} :
                    r.error = "none"}}

\* One player, three actions, three metrics with outcomes 0..2.
LiftProfiles == [{"P1"} -> {"A", "B", "C"}]

LiftNames == {"M1", "M2", "M3"}

LiftPlayers ==
  {<<Player("P1", {"A", "B", "C"}, MetricsOf(t, LiftNames, LiftProfiles), pref).obj>> :
     t \in Tables(LiftNames \X LiftProfiles, {0, 1, 2}, MaxSupport),
     pref \in Preferences(LiftNames)}

\* Two players with two actions each; P1 has two metrics, P2 one; outcomes 0..1.
GameProfiles == [{"P1", "P2"} -> {"A", "B"}]

GamePlayers ==
  {<<Player("P1", {"A", "B"}, MetricsOf(t, {"M1", "M2"}, GameProfiles), pref1).obj,
     Player("P2", {"A", "B"}, MetricsOf(t, {"M3"}, GameProfiles), pref2).obj>> :
     t \in Tables({"M1", "M2", "M3"} \X GameProfiles, {0, 1}, MaxSupport),
     pref1 \in Preferences({"M1", "M2"}),
     pref2 \in Preferences({"M3"})}

\* The coordination game of the tests: each player's one metric "Payoff" is
\* 1 when the two actions match and 0 otherwise; the preference is the
\* one-element order over that metric.
CoordinationPayoff == [ap \in GameProfiles |-> IF ap["P1"] = ap["P2"] THEN 1 ELSE 0]

CoordinationPreference ==
  Construct("PartialOrder", {"Payoff"}, <<"Payoff">>, <<>>, {<<"Payoff", "Payoff">>}).obj

build_coordination_game ==
  <<Player("P1", {"A", "B"}, ("Payoff" :> CoordinationPayoff), CoordinationPreference).obj,
    Player("P2", {"A", "B"}, ("Payoff" :> CoordinationPayoff), CoordinationPreference).obj>>

\* A preference over something that is not the player's metric names.
ForeignPreference ==
  Construct("PartialOrder", {"Other"}, <<"Other">>, <<>>, {}).obj

\* The partial orders over each set of metric names a player of GameSpec
\* has, and over a part of one.
PreferencesOver ==
  [names \in {{"M1", "M2"}, {"M3"}, {"Payoff"}, {"M1"}} |-> Preferences(names)]

\* Every preference a caller has at hand.
PreferencePool ==
  UNION {PreferencesOver[names] : names \in DOMAIN PreferencesOver}
    \cup {ForeignPreference}

\* The preference dicts handed to game_from_preference_dict: every player of
\* the game is either absent, or given a partial order over its metric names,
\* or given the foreign one.
PreferenceDicts(base_game) ==
  LET ids == PlayerIds(base_game.players)
      Candidates(pid) ==
        PreferencesOver[DOMAIN PlayerById(base_game.players, pid).metrics]
          \cup {ForeignPreference}
  IN UNION {{d \in [D -> UNION {Candidates(pid) : pid \in D}] :
               \A pid \in D : d[pid] \in Candidates(pid)}
            : D \in SUBSET ids}

\* The preference dicts that name every player of the game, as the learning
\* algorithms build them.
FullPreferenceDicts(base_game) ==
  {d \in PreferenceDicts(base_game) : DOMAIN d = PlayerIds(base_game.players)}

\* The preference dicts the learning algorithms build: for every player a
\* partial order over that player's metric names.
LearnDicts(base_game) ==
  {d \in FullPreferenceDicts(base_game) :
     \A pid \in DOMAIN d : d[pid] # ForeignPreference}

\* The true games of the learning framework: the true preferences play no
\* part in the base game or in the cache, so each table of outcomes comes
\* with one true preference per player, the first player's a chain.
MaxLearnSupport == 1

\* The chain that ranks the metrics as listed.
Chain(names) == (CHOOSE o \in total_order_from_list(names) : TRUE).obj

LearnPlayers ==
  {<<Player("P1", {"A", "B"}, MetricsOf(t, {"M1", "M2"}, GameProfiles),
            Chain(<<"M1", "M2">>)).obj,
     Player("P2", {"A", "B"}, MetricsOf(t, {"M3"}, GameProfiles),
            Chain(<<"M3">>)).obj>> :
     t \in Tables({"M1", "M2", "M3"} \X GameProfiles, {0, 1}, MaxLearnSupport)}
    \cup {build_coordination_game}

\* The number of cache entries up to which calls that add one are followed.
MaxCached == 2

\* ------------------------------------------------------------------ state
VARIABLES
  cls,          \* class being constructed
  argElements,  \* the constructor's `elements` argument
  argRelations, \* the constructor's `relations` argument
  iterOrd,      \* iteration order of the set `elements`
  pc,           \* "call" | "returned" | "raised" ("idle": no order call)
  error,        \* "none" | "ValueError" | "NetworkXError"
  self,         \* the object under construction
  gen,          \* the frame of a generator (all_partial_orders)
  ocall,        \* the operation called on the constructed order: [op, subset]
  oret,         \* what it returned or raised: [error, value, obj, list]
  players,      \* the list of players handed to PosetalGame
  game,         \* the constructed PosetalGame
  gpc,          \* "new" | "built" | "failed" ("idle": no game)
  call,         \* the query in progress: [op, player, profile]
  ret,          \* what the last call returned or raised: [error, value]
  derived,      \* game_from_preference_dict: its dict, the base game as it
                \* was at the call, and the game it returned
  ids,          \* addresses of the stored PreOrder objects of `game` and of
                \* the derived game, and the next free address
  computed,     \* how often `game` ran induced_preorder_action_profiles for
                \* the player at each list position: while it was
                \* constructed, and in the query in progress
  twin,         \* the result of a second, independent run of the call in
                \* progress (with the dict's keys inserted in another
                \* order, or with nothing cached)
  ne_cache      \* LearningFramework._ne_cache: the entries (key, value)

orderVars == <<cls, argElements, argRelations, iterOrd, pc, error, self, gen, ocall, oret>>

NoOrderCall == [op |-> "none", subset |-> {}]

NoOrderRet == [error |-> "none", value |-> {}, obj |-> NoObject, list |-> <<>>]

gameVars == <<players, game, gpc, call, ret, derived, ids, computed>>

learnVars == <<twin, ne_cache>>

vars == <<orderVars, gameVars, learnVars>>

NoCall == [op |-> "none", player |-> "", profile |-> <<>>]

NoRet == [error |-> "none", value |-> {}]

NoDerived == [preference_dict |-> <<>>, base |-> NoGame, game |-> NoGame]

NoIds == [next |-> 1, game |-> <<>>, derived |-> <<>>]

NoComputed == [construction |-> <<>>, query |-> <<>>]

NoLearnState ==
  /\ twin = NoRet
  /\ ne_cache = {}

NoGameState ==
  /\ players = <<>>
  /\ game = NoGame
  /\ gpc = "idle"
  /\ call = NoCall
  /\ ret = NoRet
  /\ derived = NoDerived
  /\ ids = NoIds
  /\ computed = NoComputed

NoOrderState ==
  /\ cls = "none"
  /\ argElements = {}
  /\ argRelations = {}
  /\ iterOrd = <<>>
  /\ pc = "idle"
  /\ error = "none"
  /\ self = NoObject
  /\ gen = NoGenerator
  /\ ocall = NoOrderCall
  /\ oret = NoOrderRet

Init ==
  /\ cls \in {"PreOrder", "PartialOrder"}
  /\ argElements \in SUBSET Elems
  /\ argRelations \in BoundedSubsets(argElements \X argElements, MaxRel)
  /\ iterOrd \in Perms(argElements)
  /\ pc = "call"
  /\ error = "none"
  /\ self = NoObject
  /\ gen = NoGenerator
  /\ ocall = NoOrderCall
  /\ oret = NoOrderRet
  /\ NoGameState
  /\ NoLearnState

\* PreOrder(elements, relations).
ConstructPreOrder ==
  /\ pc = "call"
  /\ cls = "PreOrder"
  /\ \E repOrd \in RepOrders(argElements,
                            StoredRelations(argElements, iterOrd, argRelations)) :
       LET r == Construct(cls, argElements, iterOrd, repOrd, argRelations)
       IN /\ error' = r.error
          /\ self' = r.obj
          /\ pc' = IF r.error = "none" THEN "returned" ELSE "raised"
  /\ UNCHANGED <<cls, argElements, argRelations, iterOrd, gen, ocall, oret, gameVars, learnVars>>

\* PartialOrder(elements, relations).
ConstructPartialOrder ==
  /\ pc = "call"
  /\ cls = "PartialOrder"
  /\ \E repOrd \in RepOrders(argElements,
                            StoredRelations(argElements, iterOrd, argRelations)) :
       LET r == Construct(cls, argElements, iterOrd, repOrd, argRelations)
       IN /\ error' = r.error
          /\ self' = r.obj
          /\ pc' = IF r.error = "none" THEN "returned" ELSE "raised"
  /\ UNCHANGED <<cls, argElements, argRelations, iterOrd, gen, ocall, oret, gameVars, learnVars>>

Next == ConstructPreOrder \/ ConstructPartialOrder

Spec == Init /\ [][Next]_vars

\* PosetalGame(players).
NewGame ==
  /\ gpc = "new"
  /\ \E r \in PosetalGameOutcomes(players) :
       /\ game' = r.obj
       /\ gpc' = IF r.error = "none" THEN "built" ELSE "failed"
       /\ ret' = [error |-> r.error, value |-> {}]
       /\ ids' = IF r.error = "none"
                 THEN [next |-> ids.next + Len(players),
                       game |-> AllocatePreorders(ids.next, players),
                       derived |-> <<>>]
                 ELSE ids
       /\ computed' = IF r.error = "none"
                      THEN [construction |-> [i \in 1..Len(players) |-> 1],
                            query |-> NoRuns(r.obj)]
                      ELSE NoComputed
  /\ UNCHANGED <<players, call, derived, orderVars, learnVars>>

\* best_response(player, other_players_actions, game).
BestResponse ==
  /\ gpc = "built"
  /\ call.op = "none"
  /\ \E pid \in PlayerIds(game.players), others \in Range(game.action_profiles) :
       \E r \in BestResponseOutcomes(PlayerById(game.players, pid), others, game) :
         /\ call' = [op |-> "best_response", player |-> pid, profile |-> others]
         /\ ret' = r
         /\ computed' = [computed EXCEPT !.query = InducedActionsRuns(game, pid, others)]
  /\ UNCHANGED <<players, game, gpc, derived, ids, orderVars, learnVars>>

\* is_pure_nash_equilibrium(game, action_profile).
IsPureNash ==
  /\ gpc = "built"
  /\ call.op = "none"
  /\ \E ap \in Range(game.action_profiles) :
       \E r \in IsPureNashOutcomes(game, ap), k \in IsPureNashRunsFrom(game, ap, 1) :
         /\ k.failed = (r.error # "none")
         /\ call' = [op |-> "is_pure_nash_equilibrium", player |-> "", profile |-> ap]
         /\ ret' = r
         /\ computed' = [computed EXCEPT !.query = k.runs]
  /\ UNCHANGED <<players, game, gpc, derived, ids, orderVars, learnVars>>

\* find_pure_nash_equilibria(game).
FindPure ==
  /\ gpc = "built"
  /\ call.op = "none"
  /\ \E r \in FindPureOutcomes(game), k \in FindPureRunsFrom(game, 1) :
       /\ k.failed = (r.error # "none")
       /\ call' = [op |-> "find_pure_nash_equilibria", player |-> "", profile |-> <<>>]
       /\ ret' = r
       /\ computed' = [computed EXCEPT !.query = k.runs]
  /\ UNCHANGED <<players, game, gpc, derived, ids, orderVars, learnVars>>

\* find_admissible_nash_equilibria(game).
FindAdmissible ==
  /\ gpc = "built"
  /\ call.op = "none"
  /\ \E r \in FindAdmissibleOutcomes(game), k \in FindPureRunsFrom(game, 1) :
       /\ k.failed = (r.error # "none")
       /\ call' = [op |-> "find_admissible_nash_equilibria", player |-> "", profile |-> <<>>]
       /\ ret' = r
       /\ computed' = [computed EXCEPT !.query = k.runs]
  /\ UNCHANGED <<players, game, gpc, derived, ids, orderVars, learnVars>>

\* game_from_preference_dict(game, preference_dict).
GameFromPreferenceDict ==
  /\ gpc = "built"
  /\ call.op = "none"
  /\ \E d \in PreferenceDicts(game) :
       \E r \in game_from_preference_dict(game, d) :
         /\ call' = [op |-> "game_from_preference_dict", player |-> "", profile |-> <<>>]
         /\ ret' = [error |-> r.error, value |-> {}]
         /\ derived' = [preference_dict |-> d, base |-> game, game |-> r.obj]
         /\ game' = r.base
         /\ ids' = IF r.error = "none"
                   THEN [next |-> ids.next + Len(r.obj.players),
                         game |-> ids.game,
                         derived |-> AllocatePreorders(ids.next, r.obj.players)]
                   ELSE ids
  /\ UNCHANGED <<players, gpc, computed, orderVars, learnVars>>

\* The caller takes the result and drops a derived game, which frees its
\* objects; the game is ready for the next query.
Return ==
  /\ gpc = "built"
  /\ call.op # "none"
  /\ call' = NoCall
  /\ ret' = NoRet
  /\ derived' = NoDerived
  /\ ids' = [next |-> Len(game.players) + 1, game |-> ids.game, derived |-> <<>>]
  /\ computed' = [computed EXCEPT !.query = NoRuns(game)]
  /\ twin' = NoRet
  /\ UNCHANGED <<players, game, gpc, orderVars, ne_cache>>

\* Constructions from relations of up to MaxHasseRel pairs, enough for two
\* ties that share an element.
MaxHasseRel == 4

HasseInit ==
  /\ cls \in {"PreOrder", "PartialOrder"}
  /\ argElements \in SUBSET Elems
  /\ argRelations \in BoundedSubsets(argElements \X argElements, MaxHasseRel)
  /\ iterOrd \in Perms(argElements)
  /\ pc = "call"
  /\ error = "none"
  /\ self = NoObject
  /\ gen = NoGenerator
  /\ ocall = NoOrderCall
  /\ oret = NoOrderRet
  /\ NoGameState
  /\ NoLearnState

HasseSpec == HasseInit /\ [][Next]_vars

\* Preference lifting: one game construction per behaviour.
LiftInit ==
  /\ NoOrderState
  /\ NoLearnState
  /\ players \in LiftPlayers
  /\ game = NoGame
  /\ gpc = "new"
  /\ call = NoCall
  /\ ret = NoRet
  /\ derived = NoDerived
  /\ ids = NoIds
  /\ computed = NoComputed

LiftNext == NewGame

LiftSpec == LiftInit /\ [][LiftNext]_vars

\* Best responses of a player with three actions: a one-player game is
\* built, then asked for best responses.
ResponseNext ==
  \/ NewGame
  \/ BestResponse
  \/ Return

ResponseSpec == LiftInit /\ [][ResponseNext]_vars

\* Equilibrium engine: a game is built, then queried any number of times.
GameInit ==
  /\ NoOrderState
  /\ NoLearnState
  /\ players \in GamePlayers \cup {build_coordination_game}
  /\ game = NoGame
  /\ gpc = "new"
  /\ call = NoCall
  /\ ret = NoRet
  /\ derived = NoDerived
  /\ ids = NoIds
  /\ computed = NoComputed

GameNext ==
  \/ NewGame
  \/ BestResponse
  \/ IsPureNash
  \/ FindPure
  \/ FindAdmissible
  \/ Return

GameSpec == GameInit /\ [][GameNext]_vars

\* Player(player_id, actions, metrics, preference) with the id, the actions
\* and the metrics of a player of the game and any preference of the pool.
NewPlayer ==
  /\ gpc = "built"
  /\ call.op = "none"
  /\ \E i \in 1..Len(game.players), pref \in PreferencePool :
       LET r == Player(game.players[i].player_id, game.players[i].actions,
                       game.players[i].metrics, pref)
       IN /\ call' = [op |-> "Player", player |-> game.players[i].player_id,
                      profile |-> <<>>]
          /\ ret' = [error |-> r.error,
                     value |-> IF r.error = "none" THEN {r.obj} ELSE {}]
          /\ derived' = [preference_dict |-> (game.players[i].player_id :> pref),
                         base |-> game, game |-> NoGame]
  /\ UNCHANGED <<players, game, gpc, ids, computed, orderVars, learnVars>>

\* The items of dict d when its keys were inserted in the order `keys`.
ItemsOf(d, keys) == [i \in 1..Len(keys) |-> <<keys[i], d[keys[i]]>>]

\* find_admissible_nash_equilibria_with_preferences(game, preference_dict),
\* called once for each of two insertion orders of the dict's keys;
\* call.profile keeps the order of the call whose result is in `ret`.
FindAdmissibleWithPreferences ==
  /\ gpc = "built"
  /\ call.op = "none"
  /\ \E d \in FullPreferenceDicts(game) :
       \E outs \in {UNION {{[keys |-> keys, ret |-> r] :
                              r \in find_admissible_nash_equilibria_with_preferences(
                                      game, ItemsOf(d, keys))}
                           : keys \in Perms(DOMAIN d)}} :
          \E o1 \in outs, o2 \in outs :
            /\ call' = [op |-> "find_admissible_nash_equilibria_with_preferences",
                        player |-> "", profile |-> o1.keys]
            /\ ret' = o1.ret
            /\ twin' = o2.ret
            /\ derived' = [preference_dict |-> d, base |-> game, game |-> NoGame]
  /\ UNCHANGED <<players, game, gpc, ids, computed, orderVars, ne_cache>>

\* Derived games: a game is built, then players and games are derived from
\* it with other preferences.
DeriveNext ==
  \/ NewGame
  \/ NewPlayer
  \/ GameFromPreferenceDict
  \/ Return

DeriveSpec == GameInit /\ [][DeriveNext]_vars

\* LearningFramework.__init__(true_game, ...): the base game is built from
\* the true game's players with trivial preferences, the cache is empty.
NewFramework ==
  /\ gpc = "new"
  /\ \E r \in PosetalGameOutcomes(base_players(players)) :
       /\ game' = r.obj
       /\ gpc' = IF r.error = "none" THEN "built" ELSE "failed"
       /\ ret' = [error |-> r.error, value |-> {}]
       /\ ids' = IF r.error = "none"
                 THEN [next |-> ids.next + Len(players),
                       game |-> AllocatePreorders(ids.next, players),
                       derived |-> <<>>]
                 ELSE ids
       /\ computed' = IF r.error = "none"
                      THEN [construction |-> [i \in 1..Len(players) |-> 1],
                            query |-> NoRuns(r.obj)]
                      ELSE NoComputed
  /\ ne_cache' = {}
  /\ UNCHANGED <<players, call, derived, twin, orderVars>>

\* self._ne_finder(self.base_game, prefs), as the learning algorithms call
\* it; call.profile keeps the insertion order of the dict's keys, `twin` what
\* the finder computes for the dict with nothing cached.
NeFinder ==
  /\ gpc = "built"
  /\ call.op = "none"
  /\ \E d \in LearnDicts(game) :
       \E keys \in {k \in Perms(DOMAIN d) :
                      \/ Cardinality(ne_cache) < MaxCached
                      \/ cache_get(ne_cache, ItemsOf(d, k)) # {}} :
         \E afresh \in {find_admissible_nash_equilibria_with_preferences(
                           game, ItemsOf(d, keys))} :
           \E o \in ne_finder(ne_cache, ItemsOf(d, keys), afresh), fresh \in afresh :
             /\ call' = [op |-> "_ne_finder", player |-> "", profile |-> keys]
             /\ ret' = [error |-> o.error, value |-> o.value]
             /\ twin' = fresh
             /\ ne_cache' = o.cache
             /\ derived' = [preference_dict |-> d, base |-> game, game |-> NoGame]
  /\ UNCHANGED <<players, game, gpc, ids, computed, orderVars>>

LearnInit ==
  /\ NoOrderState
  /\ NoLearnState
  /\ players \in LearnPlayers
  /\ game = NoGame
  /\ gpc = "new"
  /\ call = NoCall
  /\ ret = NoRet
  /\ derived = NoDerived
  /\ ids = NoIds
  /\ computed = NoComputed

\* The learning framework: it is built, then its cached finder is called
\* any number of times.
LearnNext ==
  \/ NewFramework
  \/ NeFinder
  \/ Return

LearnSpec == LearnInit /\ [][LearnNext]_vars

\* Equilibria of hypothetical preferences: a game is built, then asked for
\* the admissible equilibria under preference dicts.
PrefNext ==
  \/ NewGame
  \/ FindAdmissibleWithPreferences
  \/ Return

PrefSpec == GameInit /\ [][PrefNext]_vars

\* Order-universe enumerator: element sets up to MaxElems, and one set of
\* more than MaxEnumerable elements.
EnumInit ==
  /\ cls = "all_partial_orders"
  /\ argElements \in (SUBSET Elems) \cup {1..(MaxEnumerable + 1)}
  /\ argRelations = {}
  /\ iterOrd = <<>>
  /\ pc = "call"
  /\ error = "none"
  /\ self = NoObject
  /\ gen = NoGenerator
  /\ ocall = NoOrderCall
  /\ oret = NoOrderRet
  /\ NoGameState
  /\ NoLearnState

\* all_partial_orders(elements): the function has a yield in its body, so the
\* call runs none of it and hands back a generator.
CallAllPartialOrders ==
  /\ cls = "all_partial_orders"
  /\ pc = "call"
  /\ pc' = "created"
  /\ UNCHANGED <<cls, argElements, argRelations, iterOrd, error, self, gen,
                 ocall, oret, gameVars, learnVars>>

\* A size test that takes no set for empty (mutant).
EmptyNever(elements) == FALSE

\* The test of line 52: `len(elements) == 0`.
Empty(elements) == Cardinality(elements) = 0

\* next() on the generator: the first one runs the body from its top (the
\* two size tests, the node list), every one runs the mask loop up to the
\* next yield, or to the end.
NextAllPartialOrders ==
  /\ cls = "all_partial_orders"
  /\ pc \in {"created", "suspended"}
  /\ IF pc = "created" /\ Empty(argElements)
     THEN pc' = "exhausted" /\ UNCHANGED <<error, gen>>
     ELSE IF pc = "created" /\ Cardinality(argElements) > MaxEnumerable
     THEN pc' = "raised" /\ error' = "ValueError" /\ UNCHANGED gen
     ELSE \E nodes \in (IF pc = "created" THEN Perms(argElements) ELSE {gen.nodes}) :
            LET n == NextYield(nodes, possible_edges(nodes), gen.seen_closures,
                               IF pc = "created" THEN 0 ELSE gen.mask + 1)
            IN IF ~n.found
               THEN /\ pc' = "exhausted"
                    /\ gen' = [gen EXCEPT !.nodes = nodes, !.mask = n.mask]
                    /\ UNCHANGED error
               ELSE \E o \in ConstructOutcomes("PartialOrder", Range(nodes), n.closure) :
                      /\ error' = o.error
                      /\ pc' = IF o.error = "none" THEN "suspended" ELSE "raised"
                      /\ gen' = [nodes |-> nodes, mask |-> n.mask,
                                 seen_closures |-> gen.seen_closures \cup {n.closure},
                                 yielded |-> IF o.error = "none"
                                             THEN Append(gen.yielded, o.obj)
                                             ELSE gen.yielded]
  /\ UNCHANGED <<cls, argElements, argRelations, iterOrd, self, ocall, oret, gameVars, learnVars>>

EnumNext == CallAllPartialOrders \/ NextAllPartialOrders

EnumSpec == EnumInit /\ [][EnumNext]_vars

\* list(completions_of_poset(self)) on the constructed order; its sets walk
\* their members in the order in which `elements` does.
CompletionsOfPoset ==
  /\ pc = "returned"
  /\ ocall.op = "none"
  /\ \E r \in CompletionsOutcomes(self, iterOrd) :
         /\ ocall' = [op |-> "completions_of_poset", subset |-> {}]
         /\ oret' = [error |-> r.error, value |-> {}, obj |-> NoObject, list |-> r.list]
  /\ UNCHANGED <<cls, argElements, argRelations, iterOrd, pc, error, self, gen, gameVars, learnVars>>

\* Linear extensions: an order is constructed, then completed.
CompletionNext == ConstructPreOrder \/ ConstructPartialOrder \/ CompletionsOfPoset

CompletionSpec == Init /\ [][CompletionNext]_vars

\* maximal_elements(self) on the constructed order.
MaximalElements ==
  /\ pc = "returned"
  /\ ocall.op = "none"
  /\ ocall' = [op |-> "maximal_elements", subset |-> {}]
  /\ oret' = [NoOrderRet EXCEPT !.value = maximal_elements(self)]
  /\ UNCHANGED <<cls, argElements, argRelations, iterOrd, pc, error, self, gen, gameVars, learnVars>>

\* minimal_elements(self) on the constructed order.
MinimalElements ==
  /\ pc = "returned"
  /\ ocall.op = "none"
  /\ ocall' = [op |-> "minimal_elements", subset |-> {}]
  /\ oret' = [NoOrderRet EXCEPT !.value = minimal_elements(self)]
  /\ UNCHANGED <<cls, argElements, argRelations, iterOrd, pc, error, self, gen, gameVars, learnVars>>

\* self.build_sub_preorder(subset): the assertion, the filter, and a new
\* PreOrder over the caller's set `subset`.
BuildSubPreorder ==
  /\ pc = "returned"
  /\ ocall.op = "none"
  /\ \E subset \in SUBSET Elems :
       /\ ocall' = [op |-> "build_sub_preorder", subset |-> subset]
       /\ IF ~(subset \subseteq self.elements)
          THEN oret' = [NoOrderRet EXCEPT !.error = "AssertionError"]
          ELSE \E o \in ConstructOutcomes("PreOrder", subset, sub_relations(self, subset)) :
                 oret' = [NoOrderRet EXCEPT !.error = o.error, !.obj = o.obj]
  /\ UNCHANGED <<cls, argElements, argRelations, iterOrd, pc, error, self, gen, gameVars, learnVars>>

\* PreOrder(E, self.relations) for a set E equal to self.elements: the
\* stored relation is closed once more.
ConstructFromStored ==
  /\ pc = "returned"
  /\ ocall.op = "none"
  /\ ocall' = [op |-> "PreOrder", subset |-> self.elements]
  /\ \E o \in ConstructOutcomes("PreOrder", self.elements, self.relations) :
       oret' = [NoOrderRet EXCEPT !.error = o.error, !.obj = o.obj]
  /\ UNCHANGED <<cls, argElements, argRelations, iterOrd, pc, error, self, gen, gameVars, learnVars>>

\* The constructor called once more with a set of elements and a set of
\* pairs equal in content to the first call's, each enumerated in some order
\* of its own.
ConstructAgain ==
  /\ pc \in {"returned", "raised"}
  /\ ocall.op = "none"
  /\ ocall' = [op |-> "construct_again", subset |-> argElements]
  /\ \E o \in ConstructOutcomes(cls, argElements, argRelations) :
       oret' = [NoOrderRet EXCEPT !.error = o.error, !.obj = o.obj]
  /\ UNCHANGED <<cls, argElements, argRelations, iterOrd, pc, error, self, gen, gameVars, learnVars>>

\* Operations on a constructed order: extrema, restriction, re-closing.
PosetNext ==
  \/ ConstructPreOrder
  \/ ConstructPartialOrder
  \/ MaximalElements
  \/ MinimalElements
  \/ BuildSubPreorder
  \/ ConstructFromStored
  \/ ConstructAgain

PosetSpec == Init /\ [][PosetNext]_vars

\* ------------------------------------------------- claims: order engine
\* The reflexive-transitive closure of R over E, by reachability.
ReflTransClosure(E, R) ==
  {p \in E \X E : p[1] = p[2] \/ p[2] \in ReachN(R, {p[1]}, Cardinality(E))}

\* E and R hold a tie of two distinct elements once R is closed.
ClosureHasTie(E, R) ==
  \E a, b \in E : a # b /\ <<a, b>> \in ReflTransClosure(E, R)
                        /\ <<b, a>> \in ReflTransClosure(E, R)

\* C1: the relation stored by PreOrder(E, R) is reflexive and transitive
\* over E, for all a, b, c in E in any arrangement.
C1_StoredRelationIsPreorder ==
  (cls = "PreOrder" /\ pc = "returned") =>
    /\ \A e \in self.elements : <<e, e>> \in self.relations
    /\ \A a, b, c \in self.elements :
         (<<a, b>> \in self.relations /\ <<b, c>> \in self.relations)
           => <<a, c>> \in self.relations

\* C2: PartialOrder(E, R) fails exactly when the reflexive-transitive
\* closure of R over E ties two distinct elements, and succeeds otherwise.
C2_PartialOrderFailsIffTie ==
  (cls = "PartialOrder" /\ pc # "call") =>
    ((pc = "raised") <=> ClosureHasTie(argElements, argRelations))

\* A PartialOrder construction that failed on a tie reached only through a
\* cycle of three elements (no two of them are tied in R itself).
C2_Witness ==
  /\ cls = "PartialOrder"
  /\ pc = "raised"
  /\ Cardinality(argElements) = 3
  /\ \A a, b \in argElements :
       (a # b /\ <<a, b>> \in argRelations) => <<b, a>> \notin argRelations

\* C3: PreOrder(E, R) construction never fails.
C3_PreOrderNeverFails == cls = "PreOrder" => pc # "raised"

\* ------------------------------------------- claims: preference lifting
\* The metrics on which x scores strictly higher / lower than y.
GreaterMetrics(player, x, y) ==
  {m \in DOMAIN player.metrics : player.metrics[m][x] > player.metrics[m][y]}

LessMetrics(player, x, y) ==
  {m \in DOMAIN player.metrics : player.metrics[m][x] < player.metrics[m][y]}

\* a is a strict ancestor of b along the edges u -> v of preference.less(u, v).
StrictAncestor(player, a, b) ==
  LET P == player.preference
      E == {e \in P.elements \X P.elements :
              <<e[1], e[2]>> \in P.relations /\ <<e[2], e[1]>> \notin P.relations}
  IN \E c \in P.elements : <<a, c>> \in E /\ <<c, b>> \in ReflTransClosure(P.elements, E)

\* The pairwise test of the induced preorder.
LiftedLeq(player, x, y) ==
  \A g \in GreaterMetrics(player, x, y) :
    \E l \in LessMetrics(player, x, y) : StrictAncestor(player, g, l)

\* The relation the game stores for the player of list position i.
StoredFor(i) == game.induced_pre_order_for_players[game.players[i].player_id].relations

\* C4: x <= y is stored for a player exactly when every GREATER metric is a
\* strict ancestor of some LESS metric; the closure adds no other pair.
C4_StoredIsPairwiseTest ==
  gpc = "built" =>
    \A i \in 1..Len(game.players) :
      \A x, y \in Range(game.action_profiles) :
        (<<x, y>> \in StoredFor(i)) <=> LiftedLeq(game.players[i], x, y)

\* A stored pair x <= y whose GREATER metric reaches a LESS metric only
\* through a third one: preference.less does not relate the two directly.
C4_Witness ==
  /\ gpc = "built"
  /\ \E x, y \in Range(game.action_profiles) :
       /\ <<x, y>> \in StoredFor(1)
       /\ \E g \in GreaterMetrics(game.players[1], x, y) :
            \A l \in LessMetrics(game.players[1], x, y) :
              ~less(game.players[1].preference.relations, g, l)

\* C5 as stated: with no GREATER metric, or with no LESS metric, x <= y holds.
C5_VacuousWithoutGreaterOrLess ==
  gpc = "built" =>
    \A i \in 1..Len(game.players) :
      \A x, y \in Range(game.action_profiles) :
        (GreaterMetrics(game.players[i], x, y) = {}
         \/ LessMetrics(game.players[i], x, y) = {})
          => <<x, y>> \in StoredFor(i)

\* C5 (amended): with no GREATER metric x <= y holds; with no LESS metric
\* x <= y holds exactly when no metric is GREATER either.
C5_VacuousWithoutGreater ==
  gpc = "built" =>
    \A i \in 1..Len(game.players) :
      \A x, y \in Range(game.action_profiles) :
        /\ GreaterMetrics(game.players[i], x, y) = {} => <<x, y>> \in StoredFor(i)
        /\ LessMetrics(game.players[i], x, y) = {} =>
             (<<x, y>> \in StoredFor(i) <=> GreaterMetrics(game.players[i], x, y) = {})

\* A pair with a GREATER metric and no LESS metric, which is not stored,
\* next to its converse (no GREATER metric), which is.
C5_Witness ==
  /\ gpc = "built"
  /\ \E x, y \in Range(game.action_profiles) :
       /\ LessMetrics(game.players[1], x, y) = {}
       /\ GreaterMetrics(game.players[1], x, y) # {}
       /\ <<x, y>> \notin StoredFor(1)
       /\ <<y, x>> \in StoredFor(1)

\* ------------------------------------------ claims: equilibrium engine
\* Every combination of one action per player.
CartesianProfiles(ps) ==
  {f \in [PlayerIds(ps) -> UNION {ps[i].actions : i \in 1..Len(ps)}] :
     \A i \in 1..Len(ps) : f[ps[i].player_id] \in ps[i].actions}

\* C6: x <= x is stored for every player and profile, and each stored
\* preorder is over exactly the game's action profiles.
C6_InducedReflexiveOverProfiles ==
  gpc = "built" =>
    \A i \in 1..Len(game.players) :
      /\ game.induced_pre_order_for_players[game.players[i].player_id].elements
           = Range(game.action_profiles)
      /\ \A x \in Range(game.action_profiles) : <<x, x>> \in StoredFor(i)

\* A built two-player game whose first player does not rank all profiles alike.
C6_Witness ==
  /\ gpc = "built"
  /\ Len(game.players) = 2
  /\ Cardinality(Range(game.action_profiles)) = 4
  /\ \E x, y \in Range(game.action_profiles) : <<x, y>> \notin StoredFor(1)

\* Position of the player of the given id in the game's list.
IndexOfPlayer(pid) == CHOOSE i \in 1..Len(game.players) : game.players[i].player_id = pid

\* Player i has an own action that makes the profile strictly greater.
CanImprove(i, ap) ==
  \E a \in game.players[i].actions :
    less(StoredFor(i), ap, [ap EXCEPT ![game.players[i].player_id] = a])

\* C7: best_response returns exactly the own actions a whose profile
\* (others, a) no own action makes strictly greater.
C7_BestResponseIsMaximal ==
  call.op = "best_response" =>
    /\ ret.error = "none"
    /\ ret.value =
         {a \in game.players[IndexOfPlayer(call.player)].actions :
            ~CanImprove(IndexOfPlayer(call.player),
                        [call.profile EXCEPT ![call.player] = a])}

\* A best response that keeps one action and drops a strictly worse one.
C7_Witness ==
  /\ call.op = "best_response"
  /\ ret.error = "none"
  /\ Cardinality(ret.value) = 1
  /\ Cardinality(game.players[IndexOfPlayer(call.player)].actions) = 2

\* C8: is_pure_nash_equilibrium is true exactly when no player has an own
\* action leading to a strictly greater profile in its stored preorder.
C8_NashIffNoImprovingDeviation ==
  call.op = "is_pure_nash_equilibrium" =>
    /\ ret.error = "none"
    /\ ret.value <=> \A i \in 1..Len(game.players) : ~CanImprove(i, call.profile)

\* A profile refused because of the second player alone.
C8_Witness ==
  /\ call.op = "is_pure_nash_equilibrium"
  /\ ret.error = "none"
  /\ ~ret.value
  /\ ~CanImprove(1, call.profile)
  /\ CanImprove(2, call.profile)

\* C9: find_pure_nash_equilibria returns exactly the profiles of the full
\* Cartesian product, each present once in the game's list, for which
\* is_pure_nash_equilibrium is true.
C9_PureNashIsFilteredProduct ==
  call.op = "find_pure_nash_equilibria" =>
    /\ ret.error = "none"
    /\ Range(game.action_profiles) = CartesianProfiles(game.players)
    /\ Len(game.action_profiles) = Cardinality(CartesianProfiles(game.players))
    /\ ret.value =
         {p \in CartesianProfiles(game.players) :
            IsPureNashOutcomes(game, p) = {[error |-> "none", value |-> TRUE]}}

\* A scan that kept some profiles and refused others.
C9_Witness ==
  /\ call.op = "find_pure_nash_equilibria"
  /\ ret.error = "none"
  /\ ret.value # {}
  /\ ret.value # CartesianProfiles(game.players)

\* The pure Nash equilibria, by the deviation test.
PureNash == {p \in CartesianProfiles(game.players) :
               \A i \in 1..Len(game.players) : ~CanImprove(i, p)}

\* y dominates x: x <= y for every player, x < y for at least one.
Dominates(y, x) ==
  /\ \A i \in 1..Len(game.players) : leq(StoredFor(i), x, y)
  /\ \E i \in 1..Len(game.players) : less(StoredFor(i), x, y)

\* C10: find_admissible_nash_equilibria returns exactly the pure Nash
\* equilibria that no other pure Nash equilibrium dominates.
C10_AdmissibleIsUndominatedNash ==
  call.op = "find_admissible_nash_equilibria" =>
    /\ ret.error = "none"
    /\ ret.value = {x \in PureNash : ~\E y \in PureNash \ {x} : Dominates(y, x)}

\* A dominated equilibrium was removed while a tie of two equilibria, of
\* which neither dominates the other, was kept.
C10_Witness ==
  /\ call.op = "find_admissible_nash_equilibria"
  /\ ret.error = "none"
  /\ \E x \in PureNash : x \notin ret.value
  /\ Cardinality(ret.value) >= 2

\* The action profile with the given actions of P1 and P2.
Profile(a1, a2) == [q \in {"P1", "P2"} |-> IF q = "P1" THEN a1 ELSE a2]

\* C11: in the coordination game find_pure_nash_equilibria and
\* find_admissible_nash_equilibria both return exactly {(A,A), (B,B)}, and
\* is_pure_nash_equilibrium is false for (A,B) and for (B,A).
C11_CoordinationEquilibria ==
  (players = build_coordination_game /\ gpc = "built") =>
    /\ call.op \in {"find_pure_nash_equilibria", "find_admissible_nash_equilibria"} =>
         ret = [error |-> "none", value |-> {Profile("A", "A"), Profile("B", "B")}]
    /\ (/\ call.op = "is_pure_nash_equilibrium"
        /\ call.profile \in {Profile("A", "B"), Profile("B", "A")}) =>
         ret = [error |-> "none", value |-> FALSE]

\* The admissible equilibria of the coordination game came back, two of them.
C11_Witness ==
  /\ players = build_coordination_game
  /\ call.op = "find_admissible_nash_equilibria"
  /\ ret.error = "none"
  /\ Cardinality(ret.value) = 2

\* ------------------------------------------ claims: order enumerator
\* The reflexive, antisymmetric and transitive relations on E.
PartialOrderRelations(E) ==
  {R \in {{<<e, e>> : e \in E} \cup S :
            S \in SUBSET {p \in E \X E : p[1] # p[2]}} :
     /\ \A a, b \in E : (<<a, b>> \in R /\ <<b, a>> \in R) => a = b
     /\ \A a, b, c \in E : (<<a, b>> \in R /\ <<b, c>> \in R) => <<a, c>> \in R}

\* The numbers of partial orders on 1..5 labelled elements.
PosetCounts == <<1, 3, 19, 219, 4231>>

\* C12: for 1 <= |E| <= 5 all_partial_orders(E) never fails, yields only
\* partial orders over E, none of them twice, and by the time it is
\* exhausted it has yielded every partial order over E: 1, 3, 19, 219, 4231
\* of them for |E| = 1..5.
C12_EveryPartialOrderOnce ==
  (/\ cls = "all_partial_orders"
   /\ Cardinality(argElements) >= 1
   /\ Cardinality(argElements) <= MaxEnumerable) =>
    /\ pc # "raised"
    /\ \A i \in DOMAIN gen.yielded :
         /\ gen.yielded[i].cls = "PartialOrder"
         /\ gen.yielded[i].elements = argElements
         /\ \A j \in DOMAIN gen.yielded :
              gen.yielded[i].relations = gen.yielded[j].relations => i = j
    /\ pc = "exhausted" =>
         /\ {gen.yielded[i].relations : i \in DOMAIN gen.yielded}
              = PartialOrderRelations(argElements)
         /\ Len(gen.yielded) = PosetCounts[Cardinality(argElements)]

\* The enumeration over three elements ran to its end with 19 orders.
C12_Witness ==
  /\ cls = "all_partial_orders"
  /\ pc = "exhausted"
  /\ Cardinality(argElements) = 3
  /\ Len(gen.yielded) = 19

\* C13: with more than 5 elements the call itself fails, and no partial
\* order is ever produced.
C13_CallItselfFails ==
  (cls = "all_partial_orders" /\ Cardinality(argElements) > MaxEnumerable) =>
    /\ pc \in {"call", "raised"}
    /\ gen.yielded = <<>>

\* ------------------------------------------ claims: linear extensions
\* The relation of the total order that lists its elements as `order`.
TotalRelation(order) ==
  {<<order[p[1]], order[p[2]]>> :
     p \in {q \in (1..Len(order)) \X (1..Len(order)) : q[1] <= q[2]}}

\* The relations of the total orders on P's elements that contain P's relations.
LinearExtensions(P) ==
  {T \in {TotalRelation(order) : order \in Perms(P.elements)} : P.relations \subseteq T}

RECURSIVE Factorial(_)
Factorial(n) == IF n = 0 THEN 1 ELSE n * Factorial(n - 1)

\* C14: completions_of_poset(P) of a partial order P yields every linear
\* extension of P, none twice, and nothing else: n! orders when no two
\* distinct elements are related, one when P is total.
C14_EveryLinearExtensionOnce ==
  (cls = "PartialOrder" /\ ocall.op = "completions_of_poset") =>
    /\ oret.error = "none"
    /\ \A i, j \in DOMAIN oret.list :
         oret.list[i].relations = oret.list[j].relations => i = j
    /\ {oret.list[i].relations : i \in DOMAIN oret.list} = LinearExtensions(self)
    /\ self.relations = {<<e, e>> : e \in self.elements} =>
         Len(oret.list) = Factorial(Cardinality(self.elements))
    /\ (\A a, b \in self.elements :
          <<a, b>> \in self.relations \/ <<b, a>> \in self.relations) =>
         Len(oret.list) = 1

\* Three elements of which two are related: three completions.
C14_Witness ==
  /\ cls = "PartialOrder"
  /\ ocall.op = "completions_of_poset"
  /\ Cardinality(self.elements) = 3
  /\ \E a, b \in self.elements : less(self.relations, a, b)
  /\ Len(oret.list) = 3

\* C15: every order completions_of_poset(P) yields is a total order on P's
\* elements whose relation set contains P's stored relation set.
C15_CompletionsAreTotalSupersets ==
  (cls = "PartialOrder" /\ ocall.op = "completions_of_poset") =>
    \A i \in DOMAIN oret.list :
      /\ oret.list[i].cls = "PartialOrder"
      /\ oret.list[i].elements = self.elements
      /\ \A a, b \in self.elements :
           <<a, b>> \in oret.list[i].relations \/ <<b, a>> \in oret.list[i].relations
      /\ self.relations \subseteq oret.list[i].relations

\* A completion that orders two elements P leaves unordered, of a P that
\* orders two others.
C15_Witness ==
  /\ cls = "PartialOrder"
  /\ ocall.op = "completions_of_poset"
  /\ \E a, b \in self.elements : less(self.relations, a, b)
  /\ \E i \in DOMAIN oret.list :
       \E a, b \in self.elements :
         /\ <<a, b>> \in oret.list[i].relations
         /\ <<a, b>> \notin self.relations
         /\ <<b, a>> \notin self.relations

\* ------------------------------------- claims: operations on an order
\* C16: maximal_elements(P) is the set of the x with no y such that
\* P.less(x, y), minimal_elements(P) the set of the x with no y such that
\* P.less(y, x).
C16_ExtremaAreUnbeatenElements ==
  /\ ocall.op = "maximal_elements" =>
       oret.value = {x \in self.elements :
                       ~\E y \in self.elements : less(self.relations, x, y)}
  /\ ocall.op = "minimal_elements" =>
       oret.value = {x \in self.elements :
                       ~\E y \in self.elements : less(self.relations, y, x)}

\* C17: P.build_sub_preorder(S) for S within P's elements succeeds, has the
\* element set S, and its leq agrees with P.leq on S.
C17_RestrictionKeepsLeq ==
  (ocall.op = "build_sub_preorder" /\ ocall.subset \subseteq self.elements) =>
    /\ oret.error = "none"
    /\ oret.obj.elements = ocall.subset
    /\ \A a, b \in ocall.subset :
         leq(oret.obj.relations, a, b) <=> leq(self.relations, a, b)

\* C18: PreOrder(E, P.relations) of a preorder P = PreOrder(E, R) stores a
\* relation set equal to P.relations.
C18_ClosureIdempotent ==
  (cls = "PreOrder" /\ ocall.op = "PreOrder") =>
    /\ oret.error = "none"
    /\ oret.obj.relations = self.relations

\* ------------------------------------------- claims: derived games
\* The players of the base game the preference dict of the call leaves out.
OmittedPlayers == PlayerIds(derived.base.players) \ DOMAIN derived.preference_dict

\* C19: game_from_preference_dict with a dict that omits a player of the
\* base game fails and returns no game.
C19_OmittedPlayerIsAnError ==
  (call.op = "game_from_preference_dict" /\ OmittedPlayers # {}) =>
    /\ ret.error # "none"
    /\ derived.game.players = <<>>

\* C20: after any call of game_from_preference_dict, successful or failing,
\* the base game (players with their preferences, action profiles, stored
\* induced preorders) equals what it was before, and no stored preorder of
\* the returned game is an object the base game stores.
C20_BaseGameUntouched ==
  call.op = "game_from_preference_dict" =>
    /\ game.players = derived.base.players
    /\ game.action_profiles = derived.base.action_profiles
    /\ \A pid \in PlayerIds(game.players) :
         game.induced_pre_order_for_players[pid]
           = derived.base.induced_pre_order_for_players[pid]
    /\ ret.error = "none" =>
         /\ DOMAIN ids.derived = PlayerIds(game.players)
         /\ \A p, q \in PlayerIds(game.players) : ids.derived[p] # ids.game[q]

\* A successful derivation whose first player got another preference and a
\* stored preorder unlike the base game's.
C20_Witness ==
  /\ call.op = "game_from_preference_dict"
  /\ ret.error = "none"
  /\ "P1" \in DOMAIN derived.preference_dict
  /\ derived.game.players[1].preference # game.players[1].preference
  /\ derived.game.induced_pre_order_for_players["P1"].relations
       # game.induced_pre_order_for_players["P1"].relations

\* The metric names of the base game's player of the given id.
MetricNames(pid) == DOMAIN PlayerById(derived.base.players, pid).metrics

\* C21: Player(...) fails exactly when the preference's element set differs
\* from the metric names, and then produces no player; a dict that gives a
\* player of the base game such a preference makes game_from_preference_dict
\* fail and return no game.
C21_DomainMismatchFails ==
  /\ call.op = "Player" =>
       LET pref == derived.preference_dict[call.player]
       IN /\ (ret.error # "none") <=> (pref.elements # MetricNames(call.player))
          /\ ret.error # "none" => (ret.error = "ValueError" /\ ret.value = {})
          /\ ret.error = "none" =>
               \E p \in ret.value :
                 /\ ret.value = {p}
                 /\ p.player_id = call.player
                 /\ p.preference = pref
  /\ call.op = "game_from_preference_dict" =>
       ((ret.error # "none") <=>
          \E pid \in DOMAIN derived.preference_dict :
            derived.preference_dict[pid].elements # MetricNames(pid))
  /\ (call.op = "game_from_preference_dict" /\ ret.error # "none") =>
       (ret.error = "ValueError" /\ derived.game.players = <<>>)

\* A Player(...) that failed on a preference over only a part of the metric
\* names.
C21_Witness ==
  /\ call.op = "Player"
  /\ ret.error = "ValueError"
  /\ derived.preference_dict[call.player].elements # {}
  /\ derived.preference_dict[call.player].elements \subseteq MetricNames(call.player)

\* C22: for the same base game, find_admissible_nash_equilibria_with_preferences
\* gives one and the same result for a preference dict whatever the order in
\* which its keys were inserted.
C22_KeyOrderIrrelevant ==
  call.op = "find_admissible_nash_equilibria_with_preferences" => twin = ret

\* A dict of two keys, P2 inserted first, whose derived game has equilibria.
C22_Witness ==
  /\ call.op = "find_admissible_nash_equilibria_with_preferences"
  /\ call.profile = <<"P2", "P1">>
  /\ ret.error = "none"
  /\ ret.value # {}

\* C23: a constructed game has computed each player's induced preorder over
\* the full profile set exactly once, at construction, and no query computes
\* one again.
C23_ComputedOnceAndReused ==
  gpc = "built" =>
    \A i \in 1..Len(game.players) :
      /\ computed.construction[i] = 1
      /\ computed.query[i] = 0

\* The arguments that agree with call.profile on every other player and
\* differ in, or omit, the queried player's own action.
OwnEntryVariants ==
  {[q \in DOMAIN call.profile \ {call.player} |-> call.profile[q]]}
    \cup {[call.profile EXCEPT ![call.player] = a] :
            a \in PlayerById(game.players, call.player).actions}

\* C24: best_response and induced_preorder_actions_of_player give the same
\* result whatever entry, or none, other_players_actions holds for the
\* queried player.
C24_OwnEntryIgnored ==
  call.op = "best_response" =>
    /\ \A v \in OwnEntryVariants :
         BestResponseOutcomes(PlayerById(game.players, call.player), v, game) = {ret}
    /\ Cardinality({InducedActionsOutcomes(game, call.player, v) :
                      v \in OwnEntryVariants \cup {call.profile}}) = 1

\* A best response was asked with an own entry that is not a best response.
C24_Witness ==
  /\ call.op = "best_response"
  /\ ret.error = "none"
  /\ call.profile[call.player] \notin ret.value
  /\ Cardinality(OwnEntryVariants) = 3

\* C28: on a constructed game, best_response for a player that has actions
\* returns without error a non-empty set of that player's actions.
C28_BestResponseNonEmpty ==
  (call.op = "best_response" /\ PlayerById(game.players, call.player).actions # {}) =>
    /\ ret.error = "none"
    /\ ret.value # {}
    /\ ret.value \subseteq PlayerById(game.players, call.player).actions

\* A player with three actions got two of them back.
C28_Witness ==
  /\ call.op = "best_response"
  /\ Cardinality(PlayerById(game.players, call.player).actions) = 3
  /\ ret.error = "none"
  /\ Cardinality(ret.value) = 2

\* C29: when find_pure_nash_equilibria finds an equilibrium,
\* find_admissible_nash_equilibria returns at least one.
C29_AdmissibleNonEmpty ==
  call.op = "find_admissible_nash_equilibria" =>
    \A pure \in FindPureOutcomes(game) :
      (pure.error = "none" /\ pure.value # {}) =>
        (ret.error = "none" /\ ret.value # {})

\* Of several equilibria all but one were dominated and removed.
C29_Witness ==
  /\ call.op = "find_admissible_nash_equilibria"
  /\ \E pure \in FindPureOutcomes(game) : Cardinality(pure.value) >= 2
  /\ ret.error = "none"
  /\ Cardinality(ret.value) = 1

\* C30: all_partial_orders on the empty set ends without an error and
\* without having yielded anything, although one partial order (the empty
\* relation) exists on the empty set.
C30_EmptySetYieldsNothing ==
  (cls = "all_partial_orders" /\ argElements = {}) =>
    /\ error = "none"
    /\ pc \in {"call", "created", "exhausted"}
    /\ gen.yielded = <<>>
    /\ PartialOrderRelations(argElements) = {{}}

\* The generator for the empty set was advanced and is exhausted.
C30_Witness ==
  /\ cls = "all_partial_orders"
  /\ argElements = {}
  /\ pc = "exhausted"
  /\ gen.yielded = <<>>

\* C27: two constructions from element sets and pair sets of equal content
\* end alike and store the same relation, whatever the enumeration orders.
C27_StoredDependsOnContentOnly ==
  ocall.op = "construct_again" =>
    /\ oret.error = error
    /\ error = "none" => oret.obj.relations = self.relations

\* C25: the Hasse nodes of a constructed order partition its elements into
\* the classes of mutual <=: every element is in exactly one node, and two
\* elements share a node exactly when each is <= the other in the stored
\* relation.
C25_NodesAreEquivalenceClasses ==
  pc = "returned" =>
    /\ \A e \in self.elements :
         Cardinality({n \in self.hasse.nodes : e \in n}) = 1
    /\ \A a, b \in self.elements :
         (\E n \in self.hasse.nodes : a \in n /\ b \in n)
           <=> (leq(self.relations, a, b) /\ leq(self.relations, b, a))

\* C26: every _ne_finder call returns what the finder computes afresh for
\* the preference dict, and the cache never holds two entries for dicts of
\* equal content.
C26_CacheCoherent ==
  /\ call.op = "_ne_finder" => ret = twin
  /\ \A e1, e2 \in ne_cache :
       dict_of(e1.key) = dict_of(e2.key) => e1 = e2

\* A call answered from an entry stored under the other insertion order of
\* the same dict, next to an entry for another dict.
C26_Witness ==
  /\ call.op = "_ne_finder"
  /\ ret.error = "none"
  /\ Cardinality(ne_cache) = 2
  /\ \E e \in ne_cache :
       /\ dict_of(e.key) = derived.preference_dict
       /\ e.key # ItemsOf(derived.preference_dict, call.profile)

====
